---- MODULE Spec2Model ----
(***************************************************************************)
(* Elevation-to-terrain pipeline of Discovery-1:                           *)
(*   - the SRTM tile store (tools/srtm-parser.ts),                         *)
(*   - the height field builder and the command emitter                    *)
(*     (tools/terrain-loader-generator, src/unnamed/part_000),             *)
(*   - the emitted loader scripts run by the game host                     *)
(*     (load_terrain_row.mcfunction, setup_terrain.mcfunction).            *)
(***************************************************************************)
EXTENDS Integers, Sequences, FiniteSets, TLC

VARIABLES
  \* ---- host running the emitted scripts ----
  chunksZ,      \* number of rows the dispatcher was generated for
  host,         \* scoreboard: [objs, has, val]
  pc,           \* 0: no script running; k: next command of load_terrain_row
  inRow,        \* -1, or the row script that is running
  clean,        \* setup ran and every invocation since ran to its end
  invocations,  \* dispatcher invocations started since setup (while clean)
  completions,  \* "Terrain complete!" reports since setup (while clean)
  reads,        \* counter values read by the dispatch table, this invocation
  rowsRun,      \* row scripts started by this invocation, in order
  rowsDone,     \* row scripts run to their end since the counter was last 0
  said,         \* this invocation reported completion
  inited,       \* setup has run
  preSetup,     \* the scoreboard the last setup started from
  cut,          \* an invocation was cut off since the counter was last 0
  \* ---- command emitter (generateLoaderFunctions) ----
  hm,           \* the HeightMap: [width, length, heights, minY]
  chunkSize,    \* columns/rows per chunk
  cx, cz,       \* position of the chunk loop
  chunkNames,   \* chunk names <<cx, cz>> in the order they were pushed
  chunkFiles,   \* chunk name -> the fill commands written to its file
  loaders,      \* the loader files written after the chunks, or <<>>
  ePhase,       \* "idle" | "chunks" | "done"
  \* ---- tile store (SRTMParser) and the run that uses it ----
  files,        \* dataDir: tile name -> [exists, bytes]
  tiles,        \* this.tiles: the cache, tile name -> parsed grid
  config,       \* TerrainConfig: [scale, baseY, downsample, bbox]
  run,          \* "running" | "done" | "halted" (an uncaught throw)
  last,         \* outcome of the last store call, or [op |-> "none"]
  elevation,    \* ElevationData of loadBoundingBox, or [made |-> FALSE]
  parses,       \* tile name -> times its file was read and parsed
  firstGrid,    \* tile name -> the grid its first successful load returned
  built,        \* what generateHeightmap saw: [made, missing, minElev, maxElev]
  terrain       \* TerrainResult of generateTerrain, or [made |-> FALSE]

hostVars == <<chunksZ, host, pc, inRow, clean, invocations, completions,
              reads, rowsRun, rowsDone, said, inited, preSetup, cut>>

emitVars == <<hm, chunkSize, cx, cz, chunkNames, chunkFiles, loaders, ePhase>>

storeVars == <<files, tiles, config, run, last, elevation, parses, firstGrid,
               built, terrain>>

vars == <<hostVars, emitVars, storeVars>>
notHost == <<emitVars, storeVars>>
notEmit == <<hostVars, storeVars>>
notStore == <<hostVars, emitVars>>

\* ---------------------------------------------------------------- bounds
MaxRows == 3
\* largest counter value followed (interrupted invocations can push the
\* counter past the row count without bound)
MaxScore == MaxRows + 2
\* largest height map of the emitter runs, and largest chunk side
MaxWidth == 3
MaxLength == 2
MaxChunk == 2
\* config.baseY of the CLI run
BaseY == 64
\* 1 / arcSecond: grid steps per degree (3600 in the source); coordinates
\* are whole numbers of arc seconds
ArcPerDeg == 3
\* largest config.downsample
MaxDownsample == 2
\* config.scale of the CLI run
ScaleCli == 30
\* the chunkSize the CLI passes to generateLoaderFunctions
ChunkSizeCli == 16
\* NODATA
NoData == -32768

\* ------------------------------------------------------- emitted scripts
Cmd(op, a, b) == [op |-> op, a |-> a, b |-> b]

\* load_terrain_row.mcfunction with the increment placed before the table
rowLoaderCommands_addFirst(n) ==
  <<Cmd("add", 1, 0)>>
  \o [k \in 1..n |-> Cmd("run_if_eq", k - 1, k - 1)]
  \o <<Cmd("say_if_ge", n, 0), Cmd("set_if_ge", n, 0)>>

\* load_terrain_row.mcfunction with the completion test off by one
rowLoaderCommands_lateReset(n) ==
  [k \in 1..n |-> Cmd("run_if_eq", k - 1, k - 1)]
  \o <<Cmd("add", 1, 0), Cmd("say_if_ge", n + 1, 0), Cmd("set_if_ge", n + 1, 0)>>

\* load_terrain_row.mcfunction whose table tests "matches i.." for row i
rowLoaderCommands_openRange(n) ==
  [k \in 1..n |-> Cmd("run_if_ge", k - 1, k - 1)]
  \o <<Cmd("add", 1, 0), Cmd("say_if_ge", n, 0), Cmd("set_if_ge", n, 0)>>

\* The command lines of load_terrain_row.mcfunction for n rows (comments
\* and blank lines run nothing and are left out).
rowLoaderCommands(n) ==
  [k \in 1..n |-> Cmd("run_if_eq", k - 1, k - 1)]
  \o <<Cmd("add", 1, 0), Cmd("say_if_ge", n, 0), Cmd("set_if_ge", n, 0)>>

\* setup_terrain.mcfunction without the "players set" line
setupCommands_noReset ==
  <<Cmd("obj_add", 0, 0), Cmd("say", 0, 0)>>

\* The command lines of setup_terrain.mcfunction.
setupCommands ==
  <<Cmd("obj_add", 0, 0), Cmd("set", 0, 0), Cmd("say", 0, 0)>>

\* --------------------------------------------------- host command effects
\* "execute if score terrain_row loader matches ..." succeeds
Matches(h, cmd) ==
  /\ h.objs > 0
  /\ h.has
  /\ \/ cmd.op = "run_if_eq" /\ h.val = cmd.a
     \/ cmd.op \in {"say_if_ge", "set_if_ge", "run_if_ge"} /\ h.val >= cmd.a

\* The scoreboard after one command; a command that fails changes nothing
\* and the script goes on with its next line.
Exec(h, cmd) ==
  CASE cmd.op = "obj_add" ->
         IF h.objs = 0 THEN [objs |-> 1, has |-> FALSE, val |-> 0] ELSE h
    [] cmd.op = "set" ->
         IF h.objs = 0 THEN h ELSE [h EXCEPT !.has = TRUE, !.val = cmd.b]
    [] cmd.op = "add" ->
         IF h.objs = 0 THEN h
         ELSE [h EXCEPT !.has = TRUE, !.val = (IF h.has THEN h.val ELSE 0) + cmd.a]
    [] cmd.op = "set_if_ge" ->
         IF Matches(h, cmd) THEN [h EXCEPT !.val = cmd.b] ELSE h
    [] OTHER -> h

RECURSIVE RunScript(_, _)
RunScript(h, script) ==
  IF script = <<>> THEN h
  ELSE RunScript(Exec(h, Head(script)), Tail(script))

\* --------------------------------------------------------- JS numbers
\* The values of a JS number that are no integer, as integers no
\* elevation or level of the model reaches.
NaN == 777777
PosInf == 999999
NegInf == -999999

IsFin(v) == v \notin {NaN, PosInf, NegInf}

NumNeg(v) ==
  CASE v = NaN -> NaN
    [] v = PosInf -> NegInf
    [] v = NegInf -> PosInf
    [] OTHER -> -v

\* a + b
NumAdd(a, b) ==
  IF a = NaN \/ b = NaN THEN NaN
  ELSE IF ~IsFin(a) /\ ~IsFin(b) THEN (IF a = b THEN a ELSE NaN)
  ELSE IF ~IsFin(a) THEN a
  ELSE IF ~IsFin(b) THEN b
  ELSE a + b

\* a - b
NumSub(a, b) == NumAdd(a, NumNeg(b))

\* the run test written as a < b
StrictNe_less(a, b) == a < b

\* a !== b
StrictNe(a, b) == a # b \/ a = NaN

\* the sign of d / s when it is not a finite number (s an integer)
DivNonFinite(d, s) ==
  IF d = NaN THEN NaN
  ELSE IF s = 0 THEN (IF d = 0 THEN NaN ELSE IF d > 0 THEN PosInf ELSE NegInf)
  ELSE IF s > 0 THEN d ELSE NumNeg(d)

\* Math.round(d / s): the nearest integer, a half rounded up
RoundDiv(d, s) ==
  IF ~IsFin(d) \/ s = 0 THEN DivNonFinite(d, s)
  ELSE IF s > 0 THEN (2 * d + s) \div (2 * s)
  ELSE (2 * (-d) + (-s)) \div (2 * (-s))

\* Math.ceil(d / s)
CeilDivNum(d, s) ==
  IF ~IsFin(d) \/ s = 0 THEN DivNonFinite(d, s)
  ELSE IF s > 0 THEN -((-d) \div s)
  ELSE -(d \div (-s))

\* Math.min / Math.max folded over a set, from Infinity / -Infinity
MinOf(S) == IF S = {} THEN PosInf ELSE CHOOSE m \in S : \A v \in S : m <= v
MaxOf(S) == IF S = {} THEN NegInf ELSE CHOOSE m \in S : \A v \in S : m >= v

\* ------------------------------------------------------- command emitter
Min(a, b) == IF a < b THEN a ELSE b
Max(a, b) == IF a > b THEN a ELSE b

\* the quotient rounded down
CeilDiv_floor(a, b) == a \div b

\* Math.ceil(a / b) for integers a and b > 0
CeilDiv(a, b) == -((-a) \div b)

\* Math.floor(a / b) for integers a and b > 0
FloorDiv(a, b) == a \div b

\* what reading outside an array gives (undefined)
Undefined == -999

\* heightmap.heights[z][x]
Height(h, z, x) ==
  IF z \in DOMAIN h.heights /\ x \in DOMAIN h.heights[z]
    THEN h.heights[z][x] ELSE Undefined

\* the chunk grid computed with Math.floor: partial edge chunks are lost
ChunksAlong_floor(extent, size) == FloorDiv(extent, size)

\* the chunk grid never smaller than one chunk
ChunksAlong_atLeastOne(extent, size) == Max(1, CeilDiv(extent, size))

\* chunksX, chunksZ = Math.ceil(extent / chunkSize)
ChunksAlong(extent, size) == CeilDiv(extent, size)

\* endX, endZ of a chunk, and the cells it is generated from
ChunkRange(h, startX, startZ, size) ==
  [startX |-> startX, endX |-> Min(startX + size, h.width),
   startZ |-> startZ, endZ |-> Min(startZ + size, h.length)]

Fill(x1, y1, z1, x2, y2, z2, block) ==
  [x1 |-> x1, y1 |-> y1, z1 |-> z1, x2 |-> x2, y2 |-> y2, z2 |-> z2,
   block |-> block]

\* the three fills pushed when a run runStart..runEnd of level runHeight ends
RunFills(h, runStart, runEnd, runHeight, z) ==
  << Fill(runStart, h.minY - 4, z, runEnd, NumAdd(runHeight, -4), z, "stone"),
     Fill(runStart, NumAdd(runHeight, -3), z, runEnd, NumAdd(runHeight, -1), z, "dirt"),
     Fill(runStart, runHeight, z, runEnd, runHeight, z, "grass_block") >>

\* the inner loop stopping at x < endX: the last run of a row is never closed
RECURSIVE ScanRow_noClose(_, _, _, _, _, _)
ScanRow_noClose(h, z, x, endX, runStart, runHeight) ==
  IF x >= endX THEN <<>>
  ELSE LET height == Height(h, z, x)
       IN  IF StrictNe(height, runHeight)
             THEN RunFills(h, runStart, x - 1, runHeight, z)
                  \o ScanRow_noClose(h, z, x + 1, endX, x, height)
             ELSE ScanRow_noClose(h, z, x + 1, endX, runStart, runHeight)

\* for (x = startX + 1; x <= endX; x++) of one row, from column x on
RECURSIVE ScanRow(_, _, _, _, _, _)
ScanRow(h, z, x, endX, runStart, runHeight) ==
  IF x > endX THEN <<>>
  ELSE LET height == IF x < endX THEN Height(h, z, x) ELSE -1
       IN  IF StrictNe(height, runHeight) \/ x = endX
             THEN RunFills(h, runStart, x - 1, runHeight, z)
                  \o ScanRow(h, z, x + 1, endX, x, height)
             ELSE ScanRow(h, z, x + 1, endX, runStart, runHeight)

\* for (z = startZ; z < endZ; z++), from row z on
RECURSIVE ChunkRows(_, _, _, _, _)
ChunkRows(h, z, endZ, startX, endX) ==
  IF z >= endZ THEN <<>>
  ELSE ScanRow(h, z, startX + 1, endX, startX, Height(h, z, startX))
       \o ChunkRows(h, z + 1, endZ, startX, endX)

generateChunkCommands(h, startX, startZ, size) ==
  LET r == ChunkRange(h, startX, startZ, size)
  IN  ChunkRows(h, r.startZ, r.endZ, r.startX, r.endX)

\* the cells heights[z][x] that generateChunkCommands reads
ChunkReads(h, startX, startZ, size) ==
  LET r == ChunkRange(h, startX, startZ, size)
  IN  {<<x, z>> : x \in {r.startX} \cup ((r.startX + 1)..(r.endX - 1)),
                  z \in r.startZ..(r.endZ - 1)}

\* "function terrain/chunk_<cx>_<cz>"
Call(name) == [op |-> "function", a |-> name[1], b |-> name[2]]
Note(text) == [op |-> text, a |-> 0, b |-> 0]

\* load_terrain.mcfunction: header, one call per chunk name, footer
loaderCommands(names) ==
  <<Note("#"), Note("#"), Note("#"), Note("#"), Note(""), Note("say"), Note("")>>
  \o [k \in 1..Len(names) |-> Call(names[k])]
  \o <<Note(""), Note("say")>>

\* a row file calling its chunks from the last column to the first
rowCommands_reversed(row, nx) ==
  <<Note("#")>> \o [k \in 1..nx |-> Call(<<nx - k, row>>)]

\* terrain/row_<cz>.mcfunction
rowCommands(row, nx) ==
  <<Note("#")>> \o [k \in 1..nx |-> Call(<<k - 1, row>>)]

\* ---------------------------------------------------------- tile store
\* samples: the side of a tile (3601 in the source, 1 / arcSecond + 1)
samples == ArcPerDeg + 1

Abs(v) == IF v < 0 THEN -v ELSE v

\* n.toString(): the decimal digits of n >= 0
RECURSIVE Digits(_)
Digits(n) == IF n < 10 THEN <<n>> ELSE Append(Digits(n \div 10), n % 10)

\* s.padStart(width, "0")
RECURSIVE PadStart(_, _)
PadStart(ds, width) == IF Len(ds) >= width THEN ds ELSE PadStart(<<0>> \o ds, width)

\* getTileName without Math.abs: the digits of the signed number
getTileName_noAbs(lat, lon) ==
  [ns |-> IF lat >= 0 THEN "N" ELSE "S",
   lat |-> PadStart(Digits(lat \div ArcPerDeg), 2),
   ew |-> IF lon >= 0 THEN "E" ELSE "W",
   lon |-> PadStart(Digits(lon \div ArcPerDeg), 3)]

\* getTileName(lat, lon), lat and lon counted in units of 1/unit degree
getTileNameAt(lat, lon, unit) ==
  [ns |-> IF lat >= 0 THEN "N" ELSE "S",
   lat |-> PadStart(Digits(Abs(lat) \div unit), 2),
   ew |-> IF lon >= 0 THEN "E" ELSE "W",
   lon |-> PadStart(Digits(Abs(lon) \div unit), 3)]

\* getTileName(lat, lon), lat and lon in arc seconds
getTileName(lat, lon) == getTileNameAt(lat, lon, ArcPerDeg)

\* buffer.readInt16BE(off): two bytes, big-endian, two's complement
readInt16BE(buffer, off) ==
  LET u == buffer[off + 1] * 256 + buffer[off + 2]
  IN  IF u >= 32768 THEN u - 65536 ELSE u

\* the parse loop of loadTile
ParseTile(buffer) ==
  [i \in 0..(samples * samples - 1) |-> readInt16BE(buffer, i * 2)]

\* loadTile that reads the file again although the tile is cached
loadTile_noCache(cache, dir, tileName) ==
  IF ~dir[tileName].exists
    THEN [thrown |-> TRUE, data |-> <<>>, tiles |-> cache, read |-> FALSE]
    ELSE LET data == ParseTile(dir[tileName].bytes)
         IN  [thrown |-> FALSE, data |-> data, read |-> TRUE,
              tiles |-> [n \in DOMAIN cache \cup {tileName} |->
                           IF n = tileName THEN data ELSE cache[n]]]

\* loadTile that answers a missing file with a grid of zeros
loadTile_noThrow(cache, dir, tileName) ==
  IF tileName \in DOMAIN cache
    THEN [thrown |-> FALSE, data |-> cache[tileName], tiles |-> cache, read |-> FALSE]
    ELSE LET data == IF dir[tileName].exists THEN ParseTile(dir[tileName].bytes)
                     ELSE [i \in 0..(samples * samples - 1) |-> 0]
         IN  [thrown |-> FALSE, data |-> data, read |-> dir[tileName].exists,
              tiles |-> [n \in DOMAIN cache \cup {tileName} |->
                           IF n = tileName THEN data ELSE cache[n]]]

\* loadTile(tileName) on cache this.tiles and directory dataDir: whether it
\* throws, the grid it returns, the cache after it, whether it read the file
loadTile(cache, dir, tileName) ==
  IF tileName \in DOMAIN cache
    THEN [thrown |-> FALSE, data |-> cache[tileName], tiles |-> cache, read |-> FALSE]
  ELSE IF ~dir[tileName].exists
    THEN [thrown |-> TRUE, data |-> <<>>, tiles |-> cache, read |-> FALSE]
    ELSE LET data == ParseTile(dir[tileName].bytes)
         IN  [thrown |-> FALSE, data |-> data, read |-> TRUE,
              tiles |-> [n \in DOMAIN cache \cup {tileName} |->
                           IF n = tileName THEN data ELSE cache[n]]]

\* tile[idx] of an Int16Array
Sample(tile, idx) == IF idx \in DOMAIN tile THEN tile[idx] ELSE Undefined

\* the position within the tile scaled by samples for samples - 1
TileIndex_fullSamples(lat, lon, unit) ==
  LET tileLat == lat \div unit
      tileLon == lon \div unit
      latOffset == lat - tileLat * unit
      lonOffset == lon - tileLon * unit
      row == ((unit - latOffset) * samples) \div unit
      col == (lonOffset * samples) \div unit
  IN  [row |-> row, col |-> col, idx |-> row * samples + col]

\* tileLat, tileLon, the offsets, row, col and idx of getElevation, lat and
\* lon counted in units of 1/unit degree
TileIndex(lat, lon, unit) ==
  LET tileLat == lat \div unit
      tileLon == lon \div unit
      latOffset == lat - tileLat * unit
      lonOffset == lon - tileLon * unit
      row == ((unit - latOffset) * (samples - 1)) \div unit
      col == (lonOffset * (samples - 1)) \div unit
  IN  [row |-> row, col |-> col, idx |-> row * samples + col]

\* getElevation(lat, lon): whether it throws, the value it returns, and
\* the sample it read
getElevationAt(cache, dir, lat, lon, unit) ==
  LET tileName == getTileNameAt(lat, lon, unit)
      t == loadTile(cache, dir, tileName)
      at == TileIndex(lat, lon, unit)
  IN  IF t.thrown
        THEN [thrown |-> TRUE, value |-> 0, name |-> tileName, tiles |-> t.tiles,
              read |-> FALSE, raw |-> Undefined, row |-> Undefined,
              col |-> Undefined, idx |-> Undefined]
        ELSE LET e == Sample(t.data, at.idx)
             IN  [thrown |-> FALSE, value |-> IF e = NoData THEN 0 ELSE e,
                  name |-> tileName, tiles |-> t.tiles, read |-> t.read,
                  raw |-> e, row |-> at.row, col |-> at.col, idx |-> at.idx]

\* getElevation(lat, lon), lat and lon in arc seconds
getElevation(cache, dir, lat, lon) ==
  getElevationAt(cache, dir, lat, lon, ArcPerDeg)

\* the cache after calls that asked for the tiles in names
TilesAfter(cache, dir, names) ==
  [n \in DOMAIN cache \cup {m \in names : dir[m].exists} |->
     IF n \in DOMAIN cache THEN cache[n] ELSE ParseTile(dir[n].bytes)]

\* ------------------------------------------------- height field builder
\* elev > -1000
Above(v) == v # Undefined /\ v > -1000

\* the level counted downwards: minElev - elev for elev - minElev
CellLevel_inverted(cfg, thrown, elev, minElev) ==
  NumAdd(cfg.baseY, RoundDiv(NumSub(minElev, elev), cfg.scale))

\* config.baseY + Math.round((elev - minElev) / config.scale), elev being
\* what was pushed for the cell (0 when getElevation threw)
CellLevel(cfg, thrown, elev, minElev) ==
  NumAdd(cfg.baseY, RoundDiv(NumSub(elev, minElev), cfg.scale))

\* generateHeightmap(parser, config): the HeightMap, and what it read
generateHeightmap(cache, dir, cfg) ==
  LET bbox == cfg.bbox
      step == cfg.downsample
      width == CeilDiv(bbox.east - bbox.west, step)
      length == CeilDiv(bbox.north - bbox.south, step)
      q == [z \in 0..(length - 1) |-> [x \in 0..(width - 1) |->
              getElevation(cache, dir, bbox.north - z * step, bbox.west + x * step)]]
      cells == (0..(width - 1)) \X (0..(length - 1))
      valid == {q[c[2]][c[1]].value :
                  c \in {d \in cells : ~q[d[2]][d[1]].thrown /\ Above(q[d[2]][d[1]].value)}}
      minElev == MinOf(valid)
      maxElev == MaxOf(valid)
      pushed(z, x) == IF q[z][x].thrown THEN 0
                      ELSE IF Above(q[z][x].value) THEN q[z][x].value ELSE 0
  IN  [thrown |-> FALSE,
       map |-> [width |-> width, length |-> length,
                heights |-> [z \in 0..(length - 1) |-> [x \in 0..(width - 1) |->
                               CellLevel(cfg, q[z][x].thrown, pushed(z, x), minElev)]],
                minY |-> cfg.baseY,
                maxY |-> NumAdd(cfg.baseY, CeilDivNum(NumSub(maxElev, minElev), cfg.scale))],
       missing |-> {c \in cells : q[c[2]][c[1]].thrown},
       minElev |-> minElev,
       maxElev |-> maxElev,
       elevs |-> [c \in cells |-> pushed(c[2], c[1])],
       raws |-> [c \in cells |-> q[c[2]][c[1]].raw],
       tiles |-> TilesAfter(cache, dir, {q[c[2]][c[1]].name : c \in cells})]

\* loadBoundingBox without the try/catch around getElevation
CellCaught_none == FALSE

\* the try { getElevation } catch { data[...] = 0 } of loadBoundingBox
CellCaught == TRUE

\* loadBoundingBox(bbox): whether it throws, and the ElevationData
loadBoundingBox(cache, dir, bbox) ==
  LET needed == {getTileName(lat * ArcPerDeg, lon * ArcPerDeg) :
                   lat \in (bbox.south \div ArcPerDeg)..(bbox.north \div ArcPerDeg),
                   lon \in (bbox.west \div ArcPerDeg)..(bbox.east \div ArcPerDeg)}
      cache1 == TilesAfter(cache, dir, needed)
      width == CeilDiv(bbox.east - bbox.west, 1)
      height == CeilDiv(bbox.north - bbox.south, 1)
      cells == (0..(width - 1)) \X (0..(height - 1))
      q == [c \in cells |-> getElevation(cache1, dir, bbox.north - c[2], bbox.west + c[1])]
      valid == {q[c].value : c \in {d \in cells : ~q[d].thrown /\ Above(q[d].value)}}
      uncaught == \E c \in cells : q[c].thrown /\ ~CellCaught
  IN  [made |-> TRUE,
       thrown |-> (width * height < 0) \/ uncaught,
       width |-> width,
       height |-> height,
       data |-> [i \in 0..(width * height - 1) |->
                   IF width > 0 /\ <<i % width, i \div width>> \in cells
                        /\ ~q[<<i % width, i \div width>>].thrown
                     THEN q[<<i % width, i \div width>>].value ELSE 0],
       minElevation |-> MinOf(valid),
       maxElevation |-> MaxOf(valid),
       warned |-> {n \in needed : n \notin DOMAIN cache /\ ~dir[n].exists},
       missing |-> {c \in cells : q[c].thrown},
       raws |-> [c \in cells |-> q[c].raw],
       tiles |-> TilesAfter(cache1, dir, {q[c].name : c \in cells})]

\* ---------------------------------------------------- terrain generator
\* getBlockType(elevation, surfaceY, y)
getBlockType(elev, surfaceY, y) ==
  IF y = surfaceY
    THEN IF elev < 50 THEN "grass_block"
         ELSE IF elev < 150 THEN "grass_block"
         ELSE IF elev < 250 THEN "coarse_dirt"
         ELSE "stone"
  ELSE IF y >= surfaceY - 3 THEN "dirt"
  ELSE "stone"

\* generateTerrain(elevation, config): the TerrainResult, with the cells
\* that were not skipped, the elevation each was sampled at and its surfaceY
generateTerrain(elev, cfg) ==
  LET sampleStep == Max(1, cfg.scale \div 30)
      width == CeilDiv(elev.width, sampleStep)
      length == CeilDiv(elev.height, sampleStep)
      cells == (0..(width - 1)) \X (0..(length - 1))
      src(c) == Sample(elev.data,
                       Min(c[2] * sampleStep, elev.height - 1) * elev.width
                         + Min(c[1] * sampleStep, elev.width - 1))
      placed == {c \in cells : Above(src(c))}
      surfaceY(c) ==
        NumAdd(cfg.baseY, RoundDiv(NumSub(src(c), elev.minElevation), cfg.scale))
      column(c) == {dy \in 0..4 : ~(NumAdd(surfaceY(c), -dy) < 0)}
      blocks == UNION {{[x |-> c[1], y |-> NumAdd(surfaceY(c), -dy), z |-> c[2],
                         block |-> getBlockType(src(c), surfaceY(c),
                                                NumAdd(surfaceY(c), -dy))]
                          : dy \in column(c)} : c \in placed}
  IN  [made |-> TRUE,
       width |-> width,
       length |-> length,
       minY |-> MinOf({surfaceY(c) : c \in placed}),
       maxY |-> MaxOf({surfaceY(c) : c \in placed}),
       blocks |-> blocks,
       blockCount |-> Cardinality(blocks),
       elevs |-> [c \in placed |-> src(c)],
       surface |-> [c \in placed |-> surfaceY(c)]]

\* ------------------------------------------------- states of rest
HostIdle ==
  /\ chunksZ = 0
  /\ host = [objs |-> 0, has |-> FALSE, val |-> 0]
  /\ pc = 0
  /\ inRow = -1
  /\ clean = FALSE
  /\ invocations = 0
  /\ completions = 0
  /\ reads = {}
  /\ rowsRun = <<>>
  /\ rowsDone = {}
  /\ said = FALSE
  /\ inited = FALSE
  /\ preSetup = [objs |-> 0, has |-> FALSE, val |-> 0]
  /\ cut = FALSE

EmitIdle ==
  /\ hm = [width |-> 0, length |-> 0, minY |-> BaseY, maxY |-> BaseY, heights |-> <<>>]
  /\ chunkSize = 1
  /\ cx = 0
  /\ cz = 0
  /\ chunkNames = <<>>
  /\ chunkFiles = <<>>
  /\ loaders = <<>>
  /\ ePhase = "idle"

\* the tiles of the modelled region: one row of two tiles
Lats == 0..(ArcPerDeg - 1)
Lons == 0..(2 * ArcPerDeg - 1)
TileNames == {getTileName(lat, lon) : lat \in Lats, lon \in Lons}

\* the bytes of a .hgt file holding grid g
GridBytes(g) ==
  [k \in 1..(2 * samples * samples) |->
     LET u == g[(k - 1) \div 2] % 65536
     IN  IF k % 2 = 1 THEN u \div 256 ELSE u % 256]

FlatGrid(v) == [i \in 0..(samples * samples - 1) |-> v]
RampGrid == [i \in 0..(samples * samples - 1) |-> 15 * i]
\* level ground at 50 m whose west column holds NODATA
HoleGrid ==
  [i \in 0..(samples * samples - 1) |-> IF i % samples = 0 THEN NoData ELSE 50]

NoFile == [exists |-> FALSE, bytes |-> <<>>]
FileChoices ==
  {NoFile} \cup {[exists |-> TRUE, bytes |-> GridBytes(g)] : g \in {FlatGrid(100), RampGrid}}

NoCall == [op |-> "none"]

StoreIdle ==
  /\ files = [n \in TileNames |-> NoFile]
  /\ tiles = <<>>
  /\ config = [scale |-> ScaleCli, baseY |-> BaseY, downsample |-> 1,
               bbox |-> [west |-> 0, east |-> 0, south |-> 0, north |-> 0]]
  /\ run = "idle"
  /\ last = NoCall
  /\ elevation = [made |-> FALSE]
  /\ parses = [n \in TileNames |-> 0]
  /\ firstGrid = <<>>
  /\ built = [made |-> FALSE]
  /\ terrain = [made |-> FALSE]

\* ------------------------------------------------------------ host: Init
HostStates ==
  {[objs |-> 0, has |-> FALSE, val |-> 0]}
  \cup [objs : {1}, has : {FALSE}, val : {0}]
  \cup [objs : {1}, has : {TRUE}, val : 0..MaxScore]

HostInit ==
  /\ chunksZ \in 0..MaxRows
  /\ host \in HostStates
  /\ pc = 0
  /\ inRow = -1
  /\ clean = FALSE
  /\ invocations = 0
  /\ completions = 0
  /\ reads = {}
  /\ rowsRun = <<>>
  /\ rowsDone = {}
  /\ said = FALSE
  /\ inited = FALSE
  /\ preSetup = [objs |-> 0, has |-> FALSE, val |-> 0]
  /\ cut = FALSE
  /\ EmitIdle
  /\ StoreIdle

\* ---------------------------------------------------------- host: actions
Script == rowLoaderCommands(chunksZ)

NextPc == IF pc = Len(Script) THEN 0 ELSE pc + 1

\* /function setup_terrain
Setup ==
  /\ pc = 0
  /\ host' = RunScript(host, setupCommands)
  /\ preSetup' = host
  /\ inited' = TRUE
  /\ clean' = TRUE
  /\ cut' = FALSE
  /\ invocations' = 0
  /\ completions' = 0
  /\ reads' = {}
  /\ rowsRun' = <<>>
  /\ rowsDone' = {}
  /\ said' = FALSE
  /\ UNCHANGED <<chunksZ, pc, inRow>>
  /\ UNCHANGED notHost

\* /function load_terrain_row : the script starts
Invoke ==
  /\ pc = 0
  /\ pc' = 1
  /\ reads' = {}
  /\ rowsRun' = <<>>
  /\ said' = FALSE
  /\ IF clean /\ invocations < chunksZ
       THEN /\ invocations' = invocations + 1
            /\ UNCHANGED <<clean, completions>>
       ELSE /\ clean' = FALSE
            /\ invocations' = 0
            /\ completions' = 0
  /\ UNCHANGED <<chunksZ, host, inRow, rowsDone, inited, preSetup, cut>>
  /\ UNCHANGED notHost

\* one line of the dispatch table
DispatchLine ==
  /\ pc > 0
  /\ inRow = -1
  /\ Script[pc].op \in {"run_if_eq", "run_if_ge"}
  /\ reads' = IF host.objs > 0 /\ host.has THEN reads \cup {host.val} ELSE reads
  /\ IF Matches(host, Script[pc])
       THEN /\ inRow' = Script[pc].b
            /\ rowsRun' = Append(rowsRun, Script[pc].b)
            /\ UNCHANGED pc
       ELSE /\ pc' = NextPc
            /\ UNCHANGED <<inRow, rowsRun>>
  /\ UNCHANGED <<chunksZ, host, clean, invocations, completions, rowsDone,
                 said, inited, preSetup, cut>>
  /\ UNCHANGED notHost

\* the row script started by the table reaches its last line
RowFinish ==
  /\ pc > 0
  /\ inRow # -1
  /\ rowsDone' = rowsDone \cup {inRow}
  /\ inRow' = -1
  /\ pc' = NextPc
  /\ UNCHANGED <<chunksZ, host, clean, invocations, completions, reads,
                 rowsRun, said, inited, preSetup, cut>>
  /\ UNCHANGED notHost

\* scoreboard players add terrain_row loader 1
Increment ==
  /\ pc > 0
  /\ Script[pc].op = "add"
  /\ host.val < MaxScore
  /\ host' = Exec(host, Script[pc])
  /\ pc' = NextPc
  /\ UNCHANGED <<chunksZ, inRow, clean, invocations, completions, reads,
                 rowsRun, rowsDone, said, inited, preSetup, cut>>
  /\ UNCHANGED notHost

\* execute if score ... matches n.. run say Terrain complete!
ReportComplete ==
  /\ pc > 0
  /\ Script[pc].op = "say_if_ge"
  /\ said' = Matches(host, Script[pc])
  /\ completions' = IF clean /\ Matches(host, Script[pc])
                      THEN completions + 1 ELSE completions
  /\ pc' = NextPc
  /\ UNCHANGED <<chunksZ, host, inRow, clean, invocations, reads, rowsRun,
                 rowsDone, inited, preSetup, cut>>
  /\ UNCHANGED notHost

\* execute if score ... matches n.. run scoreboard players set ... 0
ResetCounter ==
  /\ pc > 0
  /\ Script[pc].op = "set_if_ge"
  /\ host' = Exec(host, Script[pc])
  /\ rowsDone' = IF Matches(host, Script[pc]) THEN {} ELSE rowsDone
  /\ cut' = IF Matches(host, Script[pc]) THEN FALSE ELSE cut
  /\ pc' = NextPc
  /\ UNCHANGED <<chunksZ, inRow, clean, invocations, completions, reads,
                 rowsRun, said, inited, preSetup>>
  /\ UNCHANGED notHost

\* the host cuts the running invocation off (command budget, unload, quit)
Interrupt ==
  /\ pc > 0
  /\ pc' = 0
  /\ inRow' = -1
  /\ clean' = FALSE
  /\ invocations' = 0
  /\ completions' = 0
  /\ cut' = TRUE
  /\ UNCHANGED <<chunksZ, host, reads, rowsRun, rowsDone, said, inited, preSetup>>
  /\ UNCHANGED notHost

HostNext ==
  \/ Setup
  \/ Invoke
  \/ DispatchLine
  \/ RowFinish
  \/ Increment
  \/ ReportComplete
  \/ ResetCounter
  \/ Interrupt


SpecHost == HostInit /\ [][HostNext]_vars

\* ------------------------------------------------------ emitter: actions
Levels == {BaseY, BaseY + 1}

HeightMaps ==
  UNION {UNION {[width : {w}, length : {l}, minY : {BaseY}, maxY : {BaseY + 1},
                 heights : [0..(l - 1) -> [0..(w - 1) -> Levels]]]
                : w \in 0..MaxWidth} : l \in 0..MaxLength}

\* generateLoaderFunctions(heightmap, outputDir, chunkSize) is entered
EmitInit ==
  /\ hm \in HeightMaps
  /\ chunkSize \in 1..MaxChunk
  /\ cx = 0
  /\ cz = 0
  /\ chunkNames = <<>>
  /\ chunkFiles = <<>>
  /\ loaders = <<>>
  /\ ePhase = "chunks"
  /\ HostIdle
  /\ StoreIdle

chunksX == ChunksAlong(hm.width, chunkSize)
chunksZofMap == ChunksAlong(hm.length, chunkSize)

\* one pass of the body of the chunk loops
EmitChunk ==
  /\ ePhase = "chunks"
  /\ cz < chunksZofMap
  /\ cx < chunksX
  /\ LET startX == cx * chunkSize
         startZ == cz * chunkSize
         name == <<cx, cz>>
         file == [range |-> ChunkRange(hm, startX, startZ, chunkSize),
                  reads |-> ChunkReads(hm, startX, startZ, chunkSize),
                  commands |-> generateChunkCommands(hm, startX, startZ, chunkSize)]
     IN  /\ chunkNames' = Append(chunkNames, name)
         /\ chunkFiles' = [n \in DOMAIN chunkFiles \cup {name} |->
                             IF n = name THEN file ELSE chunkFiles[n]]
  /\ IF cx + 1 < chunksX
       THEN cx' = cx + 1 /\ cz' = cz
       ELSE cx' = 0 /\ cz' = cz + 1
  /\ UNCHANGED <<hm, chunkSize, loaders, ePhase>>
  /\ UNCHANGED notEmit

\* the chunk loops are over: the loader, row, dispatcher and setup files
WriteLoaders ==
  /\ ePhase = "chunks"
  /\ (cz >= chunksZofMap \/ chunksX <= 0)
  /\ loaders' = [load_terrain |-> loaderCommands(chunkNames),
                 rows |-> [r \in 0..(chunksZofMap - 1) |-> rowCommands(r, chunksX)],
                 load_terrain_row |-> rowLoaderCommands(chunksZofMap),
                 setup_terrain |-> setupCommands]
  /\ ePhase' = "done"
  /\ UNCHANGED <<hm, chunkSize, cx, cz, chunkNames, chunkFiles>>
  /\ UNCHANGED notEmit

EmitNext == EmitChunk \/ WriteLoaders

SpecEmit == EmitInit /\ [][EmitNext]_vars

\* ------------------------------------------- the generator run: actions
BBoxes ==
  [west : (ArcPerDeg - 2)..ArcPerDeg, east : (ArcPerDeg - 1)..(ArcPerDeg + 1),
   south : {0}, north : 0..(ArcPerDeg - 1)]

Configs ==
  [scale : {-ScaleCli, 0, ScaleCli}, baseY : {BaseY},
   downsample : 1..MaxDownsample, bbox : BBoxes]

\* new SRTMParser(dataDir) over some data directory, and a TerrainConfig
BuildInit ==
  /\ files \in [TileNames -> FileChoices]
  /\ tiles = <<>>
  /\ config \in Configs
  /\ run = "running"
  /\ last = NoCall
  /\ elevation = [made |-> FALSE]
  /\ parses = [n \in TileNames |-> 0]
  /\ firstGrid = <<>>
  /\ built = [made |-> FALSE]
  /\ terrain = [made |-> FALSE]
  /\ EmitIdle
  /\ HostIdle

\* the bookkeeping of one loadTile call with outcome r
Loaded(name, r) ==
  /\ tiles' = r.tiles
  /\ last' = [op |-> "loadTile", name |-> name, thrown |-> r.thrown,
              data |-> r.data, read |-> r.read]
  /\ parses' = [parses EXCEPT ![name] = @ + (IF r.read THEN 1 ELSE 0)]
  /\ firstGrid' = IF r.thrown \/ name \in DOMAIN firstGrid THEN firstGrid
                  ELSE [n \in DOMAIN firstGrid \cup {name} |->
                          IF n = name THEN r.data ELSE firstGrid[n]]

\* parser.loadTile(name) of the CLI, before the height map: a throw is
\* not caught and ends the run
CliLoadTile(name) ==
  /\ run = "running"
  /\ ePhase = "idle"
  /\ last.op \in {"none", "loadTile"}
  /\ Loaded(name, loadTile(tiles, files, name))
  /\ run' = IF loadTile(tiles, files, name).thrown THEN "halted" ELSE run
  /\ UNCHANGED <<files, config, elevation, built, terrain>>
  /\ UNCHANGED notStore

\* parser.getElevation(lat, lon) called directly: a throw ends the run
PointQuery(lat, lon) ==
  /\ run = "running"
  /\ ePhase = "idle"
  /\ LET r == getElevation(tiles, files, lat, lon)
     IN  /\ tiles' = r.tiles
         /\ last' = [op |-> "getElevation", lat |-> lat, lon |-> lon,
                     thrown |-> r.thrown, value |-> r.value, name |-> r.name]
         /\ run' = IF r.thrown THEN "halted" ELSE "done"
  /\ UNCHANGED <<files, config, elevation, parses, firstGrid, built, terrain>>
  /\ UNCHANGED notStore

\* parser.loadBoundingBox(config.bbox)
LoadBoundingBox ==
  /\ run = "running"
  /\ ePhase = "idle"
  /\ LET r == loadBoundingBox(tiles, files, config.bbox)
     IN  /\ elevation' = [made |-> TRUE, thrown |-> r.thrown, width |-> r.width,
                          height |-> r.height, data |-> r.data,
                          minElevation |-> r.minElevation,
                          maxElevation |-> r.maxElevation, missing |-> r.missing,
                          raws |-> r.raws]
         /\ tiles' = r.tiles
         /\ run' = IF r.thrown THEN "halted" ELSE "done"
  /\ UNCHANGED <<files, config, last, parses, firstGrid, built, terrain>>
  /\ UNCHANGED notStore

\* generateHeightmap(parser, config), then generateLoaderFunctions is entered
GenerateHeightmap ==
  /\ run = "running"
  /\ ePhase = "idle"
  /\ LET r == generateHeightmap(tiles, files, config)
     IN  /\ hm' = r.map
         /\ built' = [made |-> TRUE, missing |-> r.missing,
                      minElev |-> r.minElev, maxElev |-> r.maxElev,
                      elevs |-> r.elevs, raws |-> r.raws]
         /\ tiles' = r.tiles
  /\ chunkSize' = ChunkSizeCli
  /\ ePhase' = "chunks"
  /\ UNCHANGED <<cx, cz, chunkNames, chunkFiles, loaders>>
  /\ UNCHANGED <<files, config, run, last, elevation, parses, firstGrid, terrain>>
  /\ UNCHANGED hostVars

BuildNext ==
  \/ \E n \in TileNames : CliLoadTile(n)
  \/ \E lon \in {config.bbox.west, config.bbox.east} :
       PointQuery(config.bbox.north, lon)
  \/ LoadBoundingBox
  \/ GenerateHeightmap
  \/ EmitChunk
  \/ WriteLoaders

SpecBuild == BuildInit /\ [][BuildNext]_vars

\* --------------------------------------------- the tile store: actions
StoreInit ==
  /\ files \in [TileNames -> FileChoices]
  /\ tiles = <<>>
  /\ config = [scale |-> ScaleCli, baseY |-> BaseY, downsample |-> 1,
               bbox |-> [west |-> 0, east |-> 0, south |-> 0, north |-> 0]]
  /\ run = "running"
  /\ last = NoCall
  /\ elevation = [made |-> FALSE]
  /\ parses = [n \in TileNames |-> 0]
  /\ firstGrid = <<>>
  /\ built = [made |-> FALSE]
  /\ terrain = [made |-> FALSE]
  /\ EmitIdle
  /\ HostIdle

\* try { this.loadTile(name) } catch { warn }: the run goes on
TryLoadTile(name) ==
  /\ run = "running"
  /\ Loaded(name, loadTile(tiles, files, name))
  /\ UNCHANGED <<files, config, run, elevation, built, terrain>>
  /\ UNCHANGED notStore

\* the data directory changes under the run: a tile file is (re)written
WriteFile(name, content) ==
  /\ run = "running"
  /\ content.exists
  /\ content # files[name]
  /\ files' = [files EXCEPT ![name] = content]
  /\ UNCHANGED <<tiles, config, run, last, elevation, parses, firstGrid, built, terrain>>
  /\ UNCHANGED notStore

\* ... or removed
RemoveFile(name) ==
  /\ run = "running"
  /\ files[name].exists
  /\ files' = [files EXCEPT ![name] = NoFile]
  /\ UNCHANGED <<tiles, config, run, last, elevation, parses, firstGrid, built, terrain>>
  /\ UNCHANGED notStore

StoreNext ==
  \/ \E n \in TileNames : TryLoadTile(n)
  \/ \E n \in TileNames : \E c \in FileChoices : WriteFile(n, c)
  \/ \E n \in TileNames : RemoveFile(n)

SpecStore == StoreInit /\ [][StoreNext]_vars

\* ------------------------------------------- height fields: actions
\* tile files: absent, a ramp, level ground with NODATA samples
FieldFileChoices ==
  {NoFile} \cup {[exists |-> TRUE, bytes |-> GridBytes(g)] : g \in {HoleGrid, RampGrid}}

\* bounding boxes with west < east and south < north, scales > 0
FieldConfigs ==
  {c \in [scale : {ScaleCli - 10, ScaleCli, 2 * ScaleCli}, baseY : {0, BaseY},
          downsample : 1..MaxDownsample,
          bbox : [west : (ArcPerDeg - 2)..ArcPerDeg,
                  east : (ArcPerDeg - 1)..(ArcPerDeg + 1),
                  south : {0}, north : 1..(ArcPerDeg - 1)]] :
     c.bbox.west < c.bbox.east}

\* new SRTMParser(dataDir) over some data directory, and a TerrainConfig
FieldInit ==
  /\ files \in [TileNames -> FieldFileChoices]
  /\ tiles = <<>>
  /\ config \in FieldConfigs
  /\ run = "running"
  /\ last = NoCall
  /\ elevation = [made |-> FALSE]
  /\ parses = [n \in TileNames |-> 0]
  /\ firstGrid = <<>>
  /\ built = [made |-> FALSE]
  /\ terrain = [made |-> FALSE]
  /\ EmitIdle
  /\ HostIdle

\* const terrain = generateTerrain(elevation, config)
GenerateTerrain ==
  /\ elevation.made
  /\ ~elevation.thrown
  /\ ~terrain.made
  /\ terrain' = generateTerrain(elevation, config)
  /\ UNCHANGED <<files, tiles, config, run, last, elevation, parses, firstGrid,
                 built>>
  /\ UNCHANGED notStore

FieldNext ==
  \/ GenerateHeightmap
  \/ LoadBoundingBox
  \/ GenerateTerrain

SpecField == FieldInit /\ [][FieldNext]_vars

\* ------------------------------------------- point queries: actions
\* the coordinates asked about, in arc seconds: two degrees either side of
\* the equator, one degree either side of the prime meridian
PointLats == (-2 * ArcPerDeg)..(2 * ArcPerDeg - 1)
PointLons == (-ArcPerDeg)..(ArcPerDeg - 1)

\* every file name a data directory of that region may hold
PointTiles ==
  [ns : {"N", "S"}, lat : {PadStart(Digits(k), 2) : k \in 0..2},
   ew : {"E", "W"}, lon : {PadStart(Digits(k), 3) : k \in 0..1}]

PointFileChoices ==
  FileChoices \cup {[exists |-> TRUE, bytes |-> GridBytes(HoleGrid)]}

\* data directories: one tile differs from all the others (or is absent)
PointDirs ==
  {[n \in PointTiles |-> IF n = odd THEN a ELSE b] :
     odd \in PointTiles, a \in PointFileChoices, b \in PointFileChoices \ {NoFile}}

\* new SRTMParser(dataDir) over some data directory
PointInit ==
  /\ files \in PointDirs
  /\ tiles = <<>>
  /\ config = [scale |-> ScaleCli, baseY |-> BaseY, downsample |-> 1,
               bbox |-> [west |-> 0, east |-> 0, south |-> 0, north |-> 0]]
  /\ run = "running"
  /\ last = NoCall
  /\ elevation = [made |-> FALSE]
  /\ parses = [n \in PointTiles |-> 0]
  /\ firstGrid = <<>>
  /\ built = [made |-> FALSE]
  /\ terrain = [made |-> FALSE]
  /\ EmitIdle
  /\ HostIdle

PointNext ==
  \E lat \in PointLats : \E lon \in PointLons : PointQuery(lat, lon)

SpecPoint == PointInit /\ [][PointNext]_vars

\* ------------------------------- point queries between samples: actions
\* coordinates counted in half arc seconds
SubPerDeg == 2 * ArcPerDeg
SubLats == (-2 * SubPerDeg)..(2 * SubPerDeg - 1)
SubLons == (-SubPerDeg)..(SubPerDeg - 1)

\* parser.getElevation(lat, lon) at a position on or between sample points
SubQuery(lat, lon) ==
  /\ run = "running"
  /\ ePhase = "idle"
  /\ LET r == getElevationAt(tiles, files, lat, lon, SubPerDeg)
     IN  /\ tiles' = r.tiles
         /\ last' = [op |-> "getElevation", lat |-> lat, lon |-> lon,
                     thrown |-> r.thrown, value |-> r.value, name |-> r.name,
                     raw |-> r.raw, row |-> r.row, col |-> r.col, idx |-> r.idx]
         /\ run' = IF r.thrown THEN "halted" ELSE "done"
  /\ UNCHANGED <<files, config, elevation, parses, firstGrid, built, terrain>>
  /\ UNCHANGED notStore

SubNext ==
  \E lat \in SubLats : \E lon \in SubLons : SubQuery(lat, lon)

SpecSub == PointInit /\ [][SubNext]_vars

\* --------------------------------------------- tile naming: actions
\* the integer degrees getTileName is asked about
LatFloors == (-90)..89
LonFloors == (-180)..179

\* a call this.getTileName(lat, lon) with whole degrees is about to be made
NameInit ==
  /\ files = [n \in TileNames |-> NoFile]
  /\ tiles = <<>>
  /\ config = [scale |-> ScaleCli, baseY |-> BaseY, downsample |-> 1,
               bbox |-> [west |-> 0, east |-> 0, south |-> 0, north |-> 0]]
  /\ run = "running"
  /\ last \in [op : {"pending"}, lat : LatFloors, lon : LonFloors]
  /\ elevation = [made |-> FALSE]
  /\ parses = [n \in TileNames |-> 0]
  /\ firstGrid = <<>>
  /\ built = [made |-> FALSE]
  /\ terrain = [made |-> FALSE]
  /\ EmitIdle
  /\ HostIdle

\* const tileName = this.getTileName(lat, lon) of the tile preload loop
NameTile ==
  /\ run = "running"
  /\ last.op = "pending"
  /\ last' = [op |-> "getTileName", lat |-> last.lat, lon |-> last.lon,
              name |-> getTileName(last.lat * ArcPerDeg, last.lon * ArcPerDeg)]
  /\ UNCHANGED <<files, tiles, config, run, elevation, parses, firstGrid, built, terrain>>
  /\ UNCHANGED notStore

NameNext == NameTile

SpecName == NameInit /\ [][NameNext]_vars

\* ------------------------------------------------- host: claims C1 .. C4
\* the state right after /function setup_terrain
AfterSetup == clean /\ invocations = 0 /\ pc = 0

TableOps == {"run_if_eq", "run_if_ge"}

\* C1: from counter 0, rowCount (>= 1) uninterrupted invocations of the
\* dispatcher report completion exactly once, on the last of them, and the
\* counter is 0 again when that invocation has ended.
C1_Terminates ==
  clean =>
    /\ completions <= 1
    /\ invocations < chunksZ => completions = 0
    /\ (invocations = chunksZ /\ chunksZ >= 1 /\ pc > 0) =>
         completions = (IF said THEN 1 ELSE 0)
    /\ (invocations = chunksZ /\ chunksZ >= 1 /\ pc = 0) =>
         (completions = 1 /\ host.has /\ host.val = 0)
    /\ (invocations < chunksZ /\ pc = 0) => (host.has /\ host.val = invocations)

C1_Witness ==
  clean /\ chunksZ >= 2 /\ invocations = chunksZ /\ pc = 0 /\ completions = 1

\* C2: run one at a time after setup, the N-th invocation (1 <= N <=
\* rowCount) reads counter value N-1 in its dispatch table and runs row
\* script N-1 and no other row script.
C2_OneRowPerInvocation ==
  (clean /\ invocations >= 1) =>
    /\ reads \subseteq {invocations - 1}
    /\ Len(rowsRun) <= 1
    /\ \A k \in 1..Len(rowsRun) : rowsRun[k] = invocations - 1
    /\ (pc = 0 \/ (pc > 0 /\ Script[pc].op \notin TableOps)) =>
         (rowsRun = <<invocations - 1>> /\ reads = {invocations - 1})

C2_Witness ==
  clean /\ chunksZ >= 3 /\ invocations = 2 /\ pc = 0 /\ rowsRun = <<1>>

\* C3: with invocations cut off after any command, the counter is never
\* past i unless row script i ran to its end since the counter was last 0,
\* and when completion is reported every row script 0..rowCount-1 has run
\* to its end.
C3_Resumable ==
  inited =>
    /\ \A i \in 0..(chunksZ - 1) : (host.has /\ host.val > i) => i \in rowsDone
    /\ (said /\ pc = Len(Script)) => rowsDone = 0..(chunksZ - 1)

C3_Witness ==
  inited /\ cut /\ said /\ pc = Len(Script) /\ chunksZ >= 2
         /\ rowsDone = 0..(chunksZ - 1)

\* C4: the setup unit run in any scoreboard state leaves one "loader"
\* objective and the counter at 0, and a second run changes nothing.
C4_SetupIdempotent ==
  /\ LET r == RunScript(host, setupCommands)
     IN  /\ r.objs = 1 /\ r.has /\ r.val = 0
         /\ RunScript(r, setupCommands) = r
  /\ AfterSetup => (host.objs = 1 /\ host.has /\ host.val = 0)

C4_Witness ==
  AfterSetup /\ preSetup.objs = 1 /\ preSetup.has /\ preSetup.val > 0
             /\ host.objs = 1 /\ host.val = 0

\* --------------------------------------------- emitter: claims C5, C6
Cells(r) == (r.startX..(r.endX - 1)) \X (r.startZ..(r.endZ - 1))

GridCells == (0..(hm.width - 1)) \X (0..(hm.length - 1))

Covers(f, c) ==
  /\ Min(f.x1, f.x2) <= c[1] /\ c[1] <= Max(f.x1, f.x2)
  /\ Min(f.z1, f.z2) <= c[2] /\ c[2] <= Max(f.z1, f.z2)

\* the runs (surface fills) of a command list that hold cell c
RunsOf(cmds, c) ==
  {k \in 1..Len(cmds) : cmds[k].block = "grass_block" /\ Covers(cmds[k], c)}

\* the highest level any fill of the list puts a block at in column c
TopLevel(cmds, c) ==
  LET tops == {Max(cmds[k].y1, cmds[k].y2) : k \in {j \in 1..Len(cmds) : Covers(cmds[j], c)}}
  IN  CHOOSE m \in tops : \A y \in tops : y <= m

\* C5: the ranges of the emitted chunks are pairwise disjoint, lie inside
\* [0,width) x [0,length), are exactly the cells each chunk reads, and once
\* the chunk loops are over every grid cell lies in exactly one chunk.
C5_PartitionExact ==
  /\ \A n \in DOMAIN chunkFiles :
       /\ Cells(chunkFiles[n].range) \subseteq GridCells
       /\ chunkFiles[n].reads = Cells(chunkFiles[n].range)
  /\ \A n \in DOMAIN chunkFiles : \A m \in DOMAIN chunkFiles :
       n # m => Cells(chunkFiles[n].range) \cap Cells(chunkFiles[m].range) = {}
  /\ ePhase = "done" =>
       \A c \in GridCells :
         Cardinality({n \in DOMAIN chunkFiles : c \in Cells(chunkFiles[n].range)}) = 1

C5_Witness ==
  /\ ePhase = "done"
  /\ hm.width > chunkSize /\ hm.width % chunkSize # 0
  /\ hm.length >= 2
  /\ Len(chunkNames) >= 2

\* C6: expanding the fills of a chunk gives every cell of the chunk the
\* surface level heights[z][x]; every cell belongs to exactly one run, and
\* no fill reaches outside the chunk.
C6_Lossless ==
  \A n \in DOMAIN chunkFiles :
    LET f == chunkFiles[n]
    IN  /\ \A c \in Cells(f.range) :
             /\ Cardinality(RunsOf(f.commands, c)) = 1
             /\ \A k \in RunsOf(f.commands, c) :
                  /\ f.commands[k].y1 = hm.heights[c[2]][c[1]]
                  /\ f.commands[k].y2 = hm.heights[c[2]][c[1]]
             /\ TopLevel(f.commands, c) = hm.heights[c[2]][c[1]]
        /\ \A k \in 1..Len(f.commands) :
             \A c \in (f.commands[k].x1..f.commands[k].x2)
                      \X (f.commands[k].z1..f.commands[k].z2) :
               c \in Cells(f.range)

\* a chunk two columns wide whose two columns differ in level: the first
\* and the last column of the row each are a run of their own
C6_Witness ==
  \E n \in DOMAIN chunkFiles :
    LET r == chunkFiles[n].range
    IN  /\ r.endX - r.startX = 2
        /\ r.endZ > r.startZ
        /\ hm.heights[r.startZ][r.startX] # hm.heights[r.startZ][r.startX + 1]
        /\ Len(chunkFiles[n].commands) >= 6

\* ------------------------------------- builder and store: claims C7 .. C10
ValidConfig ==
  /\ config.scale > 0
  /\ config.bbox.west < config.bbox.east
  /\ config.bbox.south < config.bbox.north

\* C7: in a height field built from a valid configuration in which some
\* sample was read, every cell whose sample could not be read (its tile is
\* missing) has level exactly baseLevel.
C7_MissingCellsAtBase ==
  (built.made /\ ValidConfig /\ IsFin(built.minElev)) =>
    \A c \in built.missing : hm.heights[c[2]][c[1]] = config.baseY

\* the cells of the region query and the tile each of them belongs to
RegionCells == (0..(elevation.width - 1)) \X (0..(elevation.height - 1))
RegionTile(c) == getTileName(config.bbox.north - c[2], config.bbox.west + c[1])

\* C8: a point query whose owning tile's file is absent raises (and ends
\* the run); a region query never raises because tiles are absent (it
\* raises only for an array length below 0), and returns width x height
\* cells with 0 in every cell of a tile whose file is absent.
C8_MissingTile ==
  /\ (last.op = "getElevation" /\ ~files[getTileName(last.lat, last.lon)].exists) =>
       (last.thrown /\ run = "halted")
  /\ elevation.made =>
       /\ elevation.thrown => elevation.width * elevation.height < 0
       /\ elevation.width = config.bbox.east - config.bbox.west
       /\ elevation.height = config.bbox.north - config.bbox.south
       /\ ~elevation.thrown =>
            /\ DOMAIN elevation.data = 0..(elevation.width * elevation.height - 1)
            /\ \A c \in RegionCells :
                 ~files[RegionTile(c)].exists =>
                   elevation.data[c[2] * elevation.width + c[1]] = 0

\* a region over two tiles, one absent and one present
C8_Witness ==
  /\ elevation.made /\ ~elevation.thrown
  /\ \E c \in RegionCells : ~files[RegionTile(c)].exists
  /\ \E c \in RegionCells : /\ files[RegionTile(c)].exists
                            /\ elevation.data[c[2] * elevation.width + c[1]] # 0

\* C9: with scale <= 0 or a degenerate bounding box no height field is
\* produced and no file is emitted.
C9_InvalidConfigFatal ==
  (run # "idle" /\ ~ValidConfig) =>
    (~built.made /\ ePhase = "idle" /\ chunkNames = <<>> /\ loaders = <<>>)

\* C10: once loadTile(name) has succeeded, the cache entry for name stays
\* the grid that call returned, the file is never read again, and every
\* later loadTile(name) returns that grid, also after the file was
\* rewritten or removed.
C10_LoadTileIdempotent ==
  \A n \in DOMAIN firstGrid :
    /\ n \in DOMAIN tiles
    /\ tiles[n] = firstGrid[n]
    /\ parses[n] = 1
    /\ (last.op = "loadTile" /\ last.name = n) =>
         (~last.thrown /\ last.data = firstGrid[n])

\* a cached tile is asked for again after its file was removed
C10_Witness ==
  \E n \in DOMAIN firstGrid :
    /\ ~files[n].exists
    /\ last.op = "loadTile" /\ last.name = n
    /\ ~last.read /\ ~last.thrown
    /\ last.data = firstGrid[n]

\* ------------------------------------- tile naming: claims C11 .. C13
\* the canonical name of the tile with south-west corner (latFloor, lonFloor)
CanonName(latFloor, lonFloor) ==
  [ns |-> IF latFloor >= 0 THEN "N" ELSE "S",
   lat |-> PadStart(Digits(Abs(latFloor)), 2),
   ew |-> IF lonFloor >= 0 THEN "E" ELSE "W",
   lon |-> PadStart(Digits(Abs(lonFloor)), 3)]

\* floor(lat), floor(lon) of a coordinate in arc seconds
FloorsOf(lat, lon) == <<lat \div ArcPerDeg, lon \div ArcPerDeg>>

\* C11: the tile a point query resolves is the canonical tile of
\* (floor(lat), floor(lon)), also for negative and non-integer coordinates,
\* and no coordinate with other floors resolves to the same name.
C11_CanonicalTileName ==
  last.op = "getElevation" =>
    /\ last.name = CanonName(FloorsOf(last.lat, last.lon)[1],
                             FloorsOf(last.lat, last.lon)[2])
    /\ \A lat2 \in PointLats : \A lon2 \in PointLons :
         getTileName(lat2, lon2) = last.name =>
           FloorsOf(lat2, lon2) = FloorsOf(last.lat, last.lon)

\* the number a digit string denotes
RECURSIVE DigitsValue(_)
DigitsValue(ds) ==
  IF ds = <<>> THEN 0
  ELSE 10 * DigitsValue(SubSeq(ds, 1, Len(ds) - 1)) + ds[Len(ds)]

\* a name read back: hemisphere letter as sign, digits as magnitude
ParseName(n) ==
  << (IF n.ns = "S" THEN -1 ELSE 1) * DigitsValue(n.lat),
     (IF n.ew = "W" THEN -1 ELSE 1) * DigitsValue(n.lon) >>

\* C12: the name made for whole degrees (latFloor, lonFloor) in
\* [-90,89] x [-180,179] has two latitude and three longitude digits and
\* reads back as (latFloor, lonFloor); no other latitude of the range gives
\* the same latitude part and no other longitude the same longitude part.
C12_NameInverse ==
  last.op = "getTileName" =>
    /\ ParseName(last.name) = <<last.lat, last.lon>>
    /\ Len(last.name.lat) = 2 /\ Len(last.name.lon) = 3
    /\ \A lat2 \in LatFloors :
         getTileName(lat2 * ArcPerDeg, last.lon * ArcPerDeg) = last.name
           => lat2 = last.lat
    /\ \A lon2 \in LonFloors :
         getTileName(last.lat * ArcPerDeg, lon2 * ArcPerDeg) = last.name
           => lon2 = last.lon

C12_Witness ==
  /\ last.op = "getTileName"
  /\ last.lat = -90 /\ last.lon = -180
  /\ last.name.ns = "S" /\ last.name.ew = "W"
  /\ last.name.lat = <<9, 0>> /\ last.name.lon = <<1, 8, 0>>

\* the raw sample at row 0, column 0 of tile file n
CornerSample(n) == ParseTile(files[n].bytes)[0]

\* C13: a point query at the position of the north-west corner sample of a
\* tile whose file is present (the tile one degree south of the queried
\* latitude line) returns that sample, or 0 if it is NODATA; stated for the
\* north-east quadrant, where getTileName gives canonical names.
C13_NorthWestCorner ==
  (/\ last.op = "getElevation"
   /\ last.lat % ArcPerDeg = 0 /\ last.lon % ArcPerDeg = 0
   /\ last.lat > 0 /\ last.lon >= 0
   /\ files[CanonName(last.lat \div ArcPerDeg - 1, last.lon \div ArcPerDeg)].exists)
  => LET raw == CornerSample(CanonName(last.lat \div ArcPerDeg - 1,
                                       last.lon \div ArcPerDeg))
     IN  /\ ~last.thrown
         /\ last.value = (IF raw = NoData THEN 0 ELSE raw)

\* --------------------------------------- height fields: claims C14, C15
\* a sample that is data: read, not NODATA, above -1000
ValidRaw(v) == v # Undefined /\ v # NoData /\ v > -1000

\* the elevation of a cell: its sample, or the fallback 0
SampleElev(v) == IF ValidRaw(v) THEN v ELSE 0

\* r = round(d / s) and c = ceil(d / s), for s > 0
IsRound(r, d, s) == 2 * s * r - s <= 2 * d /\ 2 * d < 2 * s * r + s
IsCeil(c, d, s) == (c - 1) * s < d /\ d <= c * s

SmallestOf(S) == CHOOSE m \in S : \A v \in S : m <= v
LargestOf(S) == CHOOSE m \in S : \A v \in S : m >= v

HmCells == DOMAIN built.raws
HmValid == {built.raws[c] : c \in {d \in HmCells : ValidRaw(built.raws[d])}}

\* the samples behind the cells generateTerrain placed
TerrainValid ==
  {elevation.raws[c] : c \in {d \in DOMAIN elevation.raws : ValidRaw(elevation.raws[d])}}

\* C14: a height field in which some sample is valid reports minLevel =
\* baseLevel and maxLevel = baseLevel + ceil((maxElevation - minElevation) /
\* scale), the two being the smallest and largest valid sample, and every
\* cell has level baseLevel + round((sampleElevation - minElevation) / scale).
C14_LevelRange ==
  /\ (built.made /\ HmValid # {}) =>
       /\ hm.minY = config.baseY
       /\ IsCeil(hm.maxY - config.baseY,
                 LargestOf(HmValid) - SmallestOf(HmValid), config.scale)
       /\ \A c \in HmCells :
            IsRound(hm.heights[c[2]][c[1]] - config.baseY,
                    SampleElev(built.raws[c]) - SmallestOf(HmValid), config.scale)
  /\ (terrain.made /\ TerrainValid # {}) =>
       /\ terrain.minY = config.baseY
       /\ IsCeil(terrain.maxY - config.baseY,
                 LargestOf(TerrainValid) - SmallestOf(TerrainValid), config.scale)
       /\ \A c \in DOMAIN terrain.surface :
            IsRound(terrain.surface[c] - config.baseY,
                    terrain.elevs[c] - SmallestOf(TerrainValid), config.scale)

\* C15: within one height field (scale > 0), a cell of lower elevation
\* never has a higher level than a cell of higher elevation.
C15_Monotonic ==
  /\ built.made =>
       \A a \in HmCells : \A b \in HmCells :
         built.elevs[a] < built.elevs[b] =>
           hm.heights[a[2]][a[1]] <= hm.heights[b[2]][b[1]]
  /\ terrain.made =>
       \A a \in DOMAIN terrain.surface : \A b \in DOMAIN terrain.surface :
         terrain.elevs[a] < terrain.elevs[b] => terrain.surface[a] <= terrain.surface[b]

\* two cells of different elevation that round to the same level, and two
\* that do not
C15_Witness ==
  /\ built.made
  /\ \E a \in HmCells : \E b \in HmCells :
       /\ built.elevs[a] < built.elevs[b]
       /\ hm.heights[a[2]][a[1]] = hm.heights[b[2]][b[1]]
  /\ \E a \in HmCells : \E b \in HmCells :
       /\ built.elevs[a] < built.elevs[b]
       /\ hm.heights[a[2]][a[1]] < hm.heights[b[2]][b[1]]

\* ------------------------------------------ emitter: claims C16 .. C18
\* the chunks a script calls, in order
RECURSIVE CallsOf(_)
CallsOf(cmds) ==
  IF cmds = <<>> THEN <<>>
  ELSE (IF Head(cmds).op = "function" THEN <<<<Head(cmds).a, Head(cmds).b>>>> ELSE <<>>)
       \o CallsOf(Tail(cmds))

\* C16: for a height field with width = 0 or length = 0 no chunk file is
\* ever written, and the all-at-once loader holds no chunk call: its seven
\* header lines and two footer lines only.
C16_EmptyField ==
  (hm.width = 0 \/ hm.length = 0) =>
    /\ chunkNames = <<>>
    /\ chunkFiles = <<>>
    /\ ePhase = "done" =>
         /\ CallsOf(loaders.load_terrain) = <<>>
         /\ Len(loaders.load_terrain) = 9

C16_Witness ==
  /\ ePhase = "done"
  /\ hm.width = 0 /\ hm.length > 0
  /\ DOMAIN loaders.rows = 0..(chunksZofMap - 1) /\ chunksZofMap > 0
  /\ CallsOf(loaders.load_terrain) = <<>>

\* one invocation of the dispatcher: the scoreboard after it and the row
\* scripts it ran
RECURSIVE Dispatch(_, _, _)
Dispatch(h, script, rows) ==
  IF script = <<>> THEN [host |-> h, rows |-> rows]
  ELSE Dispatch(Exec(h, Head(script)), Tail(script),
                IF Head(script).op \in TableOps /\ Matches(h, Head(script))
                  THEN Append(rows, Head(script).b) ELSE rows)

\* the row scripts n invocations in a row run, and the scoreboard after them
RECURSIVE Cycle(_, _, _)
Cycle(h, script, n) ==
  IF n = 0 THEN [host |-> h, rows |-> <<>>]
  ELSE LET first == Dispatch(h, script, <<>>)
           rest == Cycle(first.host, script, n - 1)
       IN  [host |-> rest.host, rows |-> first.rows \o rest.rows]

\* the chunk calls of row scripts run one after the other
RECURSIVE RowCalls(_, _)
RowCalls(rowFiles, rows) ==
  IF rows = <<>> THEN <<>>
  ELSE CallsOf(rowFiles[Head(rows)]) \o RowCalls(rowFiles, Tail(rows))

\* chunk names in row-major order
RowMajor(nx, nz) == [k \in 1..(nx * nz) |-> <<(k - 1) % nx, (k - 1) \div nx>>]

\* C17: the all-at-once loader calls every chunk once in row-major order,
\* row script cz calls chunks (0, cz) .. (chunksX-1, cz) in that order, and
\* chunksZ invocations of the dispatcher after setup call the same chunks in
\* the same order as the all-at-once loader and leave the counter at 0.
C17_SameChunkOrder ==
  ePhase = "done" =>
    /\ CallsOf(loaders.load_terrain) = RowMajor(chunksX, chunksZofMap)
    /\ \A c \in (0..(chunksX - 1)) \X (0..(chunksZofMap - 1)) :
         /\ c \in DOMAIN chunkFiles
         /\ Cardinality({k \in 1..Len(loaders.load_terrain) :
                           loaders.load_terrain[k] = Call(c)}) = 1
    /\ DOMAIN loaders.rows = 0..(chunksZofMap - 1)
    /\ \A r \in DOMAIN loaders.rows :
         CallsOf(loaders.rows[r]) = [k \in 1..chunksX |-> <<k - 1, r>>]
    /\ LET start == RunScript([objs |-> 0, has |-> FALSE, val |-> 0],
                              loaders.setup_terrain)
           cycle == Cycle(start, loaders.load_terrain_row, chunksZofMap)
       IN  /\ RowCalls(loaders.rows, cycle.rows) = CallsOf(loaders.load_terrain)
           /\ chunksZofMap > 0 => cycle.host.val = 0

C17_Witness ==
  /\ ePhase = "done"
  /\ chunksX >= 2 /\ chunksZofMap >= 2
  /\ Len(CallsOf(loaders.load_terrain)) = chunksX * chunksZofMap

\* the runs (surface fills) of row z of a command list, as <<first, last>>
RowRuns(cmds, z) ==
  {<<cmds[k].x1, cmds[k].x2>> :
     k \in {j \in 1..Len(cmds) : cmds[j].block = "grass_block" /\ cmds[j].z1 = z}}

\* the columns of row z of a chunk at which the level changes
Breaks(r, z) ==
  {x \in r.startX..(r.endX - 1) :
     x = r.startX \/ hm.heights[z][x] # hm.heights[z][x - 1]}

\* C18: in every row of every chunk a run starts at column x if and only
\* if x is the first column of the chunk or the level differs from that of
\* column x-1, and a run ends right before the next one starts; a grid of
\* one level no wider than a chunk gives one run per row, as wide as the
\* grid, and a row whose levels alternate gives one run per column.
C18_MaximalRuns ==
  \A n \in DOMAIN chunkFiles :
    LET f == chunkFiles[n]
        r == f.range
    IN  \A z \in r.startZ..(r.endZ - 1) :
          /\ {rr[1] : rr \in RowRuns(f.commands, z)} = Breaks(r, z)
          /\ Cardinality(RowRuns(f.commands, z)) = Cardinality(Breaks(r, z))
          /\ Len(f.commands) =
               3 * Cardinality(UNION {{<<x, y>> : x \in Breaks(r, y)} :
                                        y \in r.startZ..(r.endZ - 1)})
          /\ \A rr \in RowRuns(f.commands, z) :
               /\ rr[1] <= rr[2]
               /\ rr[2] = r.endX - 1 \/ rr[2] + 1 \in Breaks(r, z)
               /\ \A x \in (rr[1] + 1)..rr[2] : x \notin Breaks(r, z)
          /\ (hm.width <= chunkSize /\ Cardinality(Breaks(r, z)) = 1) =>
               RowRuns(f.commands, z) = {<<0, hm.width - 1>>}
          /\ Breaks(r, z) = r.startX..(r.endX - 1) =>
               RowRuns(f.commands, z) = {<<x, x>> : x \in r.startX..(r.endX - 1)}

\* a row of one level as wide as the grid, and a row of alternating levels
C18_Witness ==
  /\ \E n \in DOMAIN chunkFiles :
       /\ hm.width = 2 /\ chunkSize = 2
       /\ hm.heights[chunkFiles[n].range.startZ][0] = hm.heights[chunkFiles[n].range.startZ][1]
       /\ RowRuns(chunkFiles[n].commands, chunkFiles[n].range.startZ) = {<<0, 1>>}
  /\ \E n \in DOMAIN chunkFiles :
       /\ hm.length = 2
       /\ hm.heights[1][0] # hm.heights[1][1]
       /\ RowRuns(chunkFiles[n].commands, 1) = {<<0, 0>>, <<1, 1>>}

\* --------------------------------- builder and emitter: claims C19, C20
\* C19: for a bounding box with west < east and south < north and a step
\* of downsample arc seconds, the height map has width = ceil((east - west)
\* / step) and length = ceil((north - south) / step) and holds length rows
\* of width cells; the region query has the same with step one arc second
\* and width * height cells.
C19_Dimensions ==
  /\ built.made =>
       /\ IsCeil(hm.width, config.bbox.east - config.bbox.west, config.downsample)
       /\ IsCeil(hm.length, config.bbox.north - config.bbox.south, config.downsample)
       /\ DOMAIN hm.heights = 0..(hm.length - 1)
       /\ \A z \in DOMAIN hm.heights : DOMAIN hm.heights[z] = 0..(hm.width - 1)
  /\ elevation.made =>
       /\ IsCeil(elevation.width, config.bbox.east - config.bbox.west, 1)
       /\ IsCeil(elevation.height, config.bbox.north - config.bbox.south, 1)
       /\ DOMAIN elevation.data = 0..(elevation.width * elevation.height - 1)

\* a width that the step does not divide
C19_Witness ==
  /\ built.made
  /\ (config.bbox.east - config.bbox.west) % config.downsample # 0
  /\ hm.width = 2
  /\ hm.length >= 1
  /\ 2 * config.downsample > config.bbox.east - config.bbox.west

\* C20: in the files emitted for a height map built from a valid
\* configuration with some valid sample, fills come in threes per run of
\* level h: stone from minLevel-4 to h-4, dirt from h-3 to h-1, the surface
\* block at h, over the same columns; the stone range is well ordered
\* (minLevel-4 <= h-4), so the three ranges are disjoint and cover
\* minLevel-4 .. h.
C20_ThreeFills ==
  (built.made /\ ValidConfig /\ IsFin(built.minElev)) =>
    \A n \in DOMAIN chunkFiles :
      LET cmds == chunkFiles[n].commands
      IN  /\ Len(cmds) % 3 = 0
          /\ \A k \in 1..Len(cmds) :
               k % 3 = 1 =>
                 LET stone == cmds[k]
                     dirt == cmds[k + 1]
                     top == cmds[k + 2]
                     h == top.y1
                 IN  /\ stone.block = "stone" /\ dirt.block = "dirt"
                     /\ top.block = "grass_block"
                     /\ top.y2 = h
                     /\ h = hm.heights[top.z1][top.x1]
                     /\ stone.y1 = hm.minY - 4 /\ stone.y2 = h - 4
                     /\ dirt.y1 = h - 3 /\ dirt.y2 = h - 1
                     /\ stone.y1 <= stone.y2
                     /\ \A f \in {stone, dirt} :
                          /\ f.x1 = top.x1 /\ f.x2 = top.x2
                          /\ f.z1 = top.z1 /\ f.z2 = top.z2

\* ---------------------------------------------- tile store: claim C21
\* C21: when a point query has its tile and returns, the row and column it
\* computed lie in 0 .. samples-1, the index is row * samples + col and lies
\* inside the samples * samples grid of the tile it read, and the value
\* read is a sample of that tile.
C21_IndexInTile ==
  (last.op = "getElevation" /\ ~last.thrown) =>
    /\ 0 <= last.row /\ last.row <= samples - 1
    /\ 0 <= last.col /\ last.col <= samples - 1
    /\ last.idx = last.row * samples + last.col
    /\ 0 <= last.idx /\ last.idx <= samples * samples - 1
    /\ last.name \in DOMAIN tiles
    /\ last.idx \in DOMAIN tiles[last.name]
    /\ last.raw = tiles[last.name][last.idx]
    /\ last.raw # Undefined

\* a negative latitude inside the northernmost half arc second of its
\* degree: row 0, and the last column a query reaches
C21_Witness ==
  /\ last.op = "getElevation" /\ ~last.thrown
  /\ last.lat < 0 /\ last.lon < 0
  /\ last.lat % SubPerDeg = SubPerDeg - 1
  /\ last.row = 0
  /\ last.col = samples - 2

====
